---- MODULE Spec2Model ----
(***************************************************************************)
(* The Coverity reconciliation of src/src/index.ts (the second main(),     *)
(* lines 260-477): the findings of one scan are matched against the        *)
(* discussions of a GitLab merge request, one issue at a time, and the     *)
(* discussions no issue claimed are swept.                                 *)
(*                                                                         *)
(* A note body is a sequence of lines (strings); body.includes(s) is read  *)
(* at line granularity.  The merge request's discussions live in `server`; *)
(* a run reads them once and writes through update/create calls, each of  *)
(* which may fail.                                                         *)
(***************************************************************************)
EXTENDS Integers, Sequences, FiniteSets, TLC

(* ------------------------------ bounds -------------------------------- *)
MaxIssues == 2
MaxDisc == 2
MaxRuns == 2

Keys == {"K1", "K2"}
Lines == {10, 20}
IssuePath == "a.c"
OtherPath == "b.c"

(* ------------------------- library constants -------------------------- *)
COVERITY_COMMENT_PREFACE == "<!-- Comment managed by coverity-report-output-v7 action, do not modify!"
PRESENT == "PRESENT"
NOT_PRESENT == "NOT_PRESENT"
CI_MERGE_REQUEST_DIFF_BASE_SHA == "BASE"
CI_COMMIT_SHA == "HEAD"

(* ------------------------------ strings ------------------------------- *)
\* body.includes(s), at line granularity
Includes(body, s) == \E k \in 1..Len(body) : body[k] = s

\* coverityCreateReviewCommentMessage(issue): preface, mergeKey, PRESENT, the
\* end of the HTML comment, then the description of the issue
coverityCreateReviewCommentMessage(issue) ==
  <<COVERITY_COMMENT_PREFACE, issue.mergeKey, PRESENT, "-->", "# Coverity Issue">>

\* the link of line 399, to the issue's file and line
file_link(issue) ==
  issue.strippedMainEventFilePathname \o "#L" \o ToString(issue.mainEventLineNumber)

\* coverityCreateIssueCommentMessage(issue, file_link): the review message
\* followed by the location of the issue
coverityCreateIssueCommentMessage(issue, link) ==
  coverityCreateReviewCommentMessage(issue) \o <<"## Issue location", link>>

\* coverityIsPresent(body): more than three lines, the third not NOT_PRESENT
coverityIsPresent(body) == Len(body) > 3 /\ body[3] # NOT_PRESENT

\* coverityCreateNoLongerPresentMessage(body): the header of the body with
\* NOT_PRESENT as its third line, wrapped around the old lines after the header
coverityCreateNoLongerPresentMessage(body) ==
  <<COVERITY_COMMENT_PREFACE,
    IF Len(body) >= 2 THEN body[2] ELSE "undefined",
    NOT_PRESENT, "-->", "Coverity issue no longer present">>
  \o (IF Len(body) >= 5 THEN SubSeq(body, 5, Len(body)) ELSE << >>)

\* coverityIsInDiff(issue, diff_map): the diff map as a set of <<path, line>>
coverityIsInDiff(issue, diff) ==
  <<issue.strippedMainEventFilePathname, issue.mainEventLineNumber>> \in diff

(* ------------------------------- data --------------------------------- *)
NoPos == [has |-> FALSE, new_path |-> "", new_line |-> 0]
Pos(p, l) == [has |-> TRUE, new_path |-> p, new_line |-> l]

Issue(k, l) ==
  [mergeKey |-> k, strippedMainEventFilePathname |-> IssuePath, mainEventLineNumber |-> l]
IssueUniverse == {Issue("K1", 10), Issue("K1", 20), Issue("K2", 20)}

\* CoverityProjectIssue: the server's record of a mergeKey
Absent == [known |-> FALSE, action |-> "", classification |-> "",
           firstSnapshotId |-> 0, lastSnapshotId |-> 0]
Rec(a, c, f, l) == [known |-> TRUE, action |-> a, classification |-> c,
                    firstSnapshotId |-> f, lastSnapshotId |-> l]
RecordUniverse ==
  { Rec("Ignore", "Unclassified", 1, 1),
    Rec("Undecided", "False Positive", 1, 1),
    Rec("Undecided", "Intentional", 1, 1),
    Rec("Undecided", "Unclassified", 1, 1),
    Rec("Undecided", "Unclassified", 1, 3) }

Disc(id, body, pos) == [id |-> id, body |-> body, position |-> pos]

\* the bodies a root note may carry when a run starts
StaleReviewBody(k) == <<COVERITY_COMMENT_PREFACE, k, PRESENT, "-->", "# Old text">>
ForeignBody(k) == <<"A reviewer's note", k>>
\* what a discussion may look like when a run starts: <<body, position>>
DiscussionUniverse ==
  { <<coverityCreateReviewCommentMessage(Issue("K1", 10)), Pos(IssuePath, 10)>>,
    <<StaleReviewBody("K1"), Pos(OtherPath, 10)>>,
    <<coverityCreateIssueCommentMessage(Issue("K1", 10), file_link(Issue("K1", 10))), NoPos>>,
    <<coverityCreateNoLongerPresentMessage(StaleReviewBody("K1")), NoPos>>,
    <<ForeignBody("K1"), Pos(IssuePath, 10)>>,
    <<StaleReviewBody("K2"), NoPos>> }

SeqsUpTo(S, n) == UNION { [1..m -> S] : m \in 0..n }
\* discussion ids are the listing positions
Numbered(shapes) == [k \in 1..Len(shapes) |-> Disc(k, shapes[k][1], shapes[k][2])]
InitServers == { Numbered(sh) : sh \in SeqsUpTo(DiscussionUniverse, MaxDisc) }
IssueLists == SeqsUpTo(IssueUniverse, MaxIssues)
DiffMaps == SUBSET ({IssuePath} \X Lines)
\* a diff that holds line 10 of the issues' file and not line 20
HalfDiff == {<<IssuePath, 10>>}

(* ----------------------- the Coverity settings ------------------------- *)
\* lines 278-289: the settings main() reads; a run's env holds those that are set
Settings == {"coverity_url", "COV_USER", "COVERITY_PASSPHRASE", "coverity_project_name"}
\* every setting given, or all but one
Environments == {Settings} \cup { Settings \ {s} : s \in Settings }
\* every setting given, the passphrase left out, the URL left out
FewEnvironments ==
  {Settings, Settings \ {"COVERITY_PASSPHRASE"}, Settings \ {"coverity_url"}}
\* lines 284 and 290: main() goes on only with a URL and a project name
HasUrlAndProject(e) == {"coverity_url", "coverity_project_name"} \subseteq e
\* a check that takes the server for reachable whatever is set
CanCheck_Always(e) == TRUE
\* line 357
CanCheck(e) ==
  /\ "coverity_url" \in e
  /\ "COV_USER" \in e
  /\ "COVERITY_PASSPHRASE" \in e
  /\ "coverity_project_name" \in e

(* ------------------------ the Coverity server -------------------------- *)
\* allUniqueMergeKeys (lines 361-362)
allUniqueMergeKeys(issues) == { issues[k].mergeKey : k \in 1..Len(issues) }
\* what the Coverity server may hold: a record for some of the keys given,
\* none for the others
Servers(keys) ==
  { m \in [Keys -> RecordUniverse \cup {Absent}] : \A k \in Keys \ keys : m[k] = Absent }
EmptyMap == [k \in Keys |-> Absent]
\* coverityMapMatchingMergeKeys(..., keys): the server's records of the keys
\* asked for
Matching(srv, keys) == [k \in Keys |-> IF k \in keys THEN srv[k] ELSE Absent]

(* -------------------------- per-issue logic ---------------------------- *)
\* JavaScript's `key in array`: true of the array's own property names, that
\* is its indices and "length"
JsIn(key, arr) == key \in ({ ToString(k - 1) : k \in 1..Len(arr) } \cup {"length"})

\* line 388
ignoredOnServer(projectIssue) ==
  \/ projectIssue.action = "Ignore"
  \/ JsIn(projectIssue.classification, <<"False Positive", "Intentional">>)
\* line 389
newOnServer(projectIssue) ==
  projectIssue.firstSnapshotId = projectIssue.lastSnapshotId
\* lines 385-386: the values kept when the map has no entry
DefaultIgnoredOnServer == FALSE
DefaultNewOnServer_False == FALSE
DefaultNewOnServer == TRUE

\* Array.prototype.findIndex over the indices that pass the test, 1-based;
\* 0 stands for -1
FindIndex(hits) ==
  IF hits = {} THEN 0 ELSE CHOOSE k \in hits : \A m \in hits : k <= m
\* the pool after splice(k, 1)
Splice(pool, k) == SubSeq(pool, 1, k - 1) \o SubSeq(pool, k + 1, Len(pool))

\* a test that also wants the position's file to be the issue's
PositionedTest_SamePath(d, issue) ==
  /\ d.position.has
  /\ d.position.new_line = issue.mainEventLineNumber
  /\ d.position.new_path = issue.strippedMainEventFilePathname
  /\ Includes(d.body, issue.mergeKey)
\* lines 402-404
PositionedTest(d, issue) ==
  /\ d.position.has
  /\ d.position.new_line = issue.mainEventLineNumber
  /\ Includes(d.body, issue.mergeKey)
review_discussion_index(pool, issue) ==
  FindIndex({ k \in 1..Len(pool) : PositionedTest(pool[k], issue) })
\* a test that wants the issue's line too, as the positioned one does
CommentTest_SameLine(d, issue) ==
  /\ d.position.new_line = issue.mainEventLineNumber
  /\ Includes(d.body, issue.mergeKey)
\* line 410
CommentTest(d, issue) == Includes(d.body, issue.mergeKey)
comment_index(pool, issue) ==
  FindIndex({ k \in 1..Len(pool) : CommentTest(pool[k], issue) })

NoDisc == Disc(0, << >>, NoPos)
\* a lookup that finds the discussion and leaves it in the pool
AfterPositioned_NoSplice(pool, issue) == pool
\* lines 405-408: the pool after the positioned lookup
AfterPositioned(pool, issue) ==
  LET k == review_discussion_index(pool, issue)
  IN IF k # 0 THEN Splice(pool, k) ELSE pool
existing_discussion(pool, issue) ==
  LET k == review_discussion_index(pool, issue)
  IN IF k # 0 THEN pool[k] ELSE NoDisc
\* a lookup that finds the discussion and leaves it in the pool
AfterComment_NoSplice(pool, issue) == pool
\* lines 410-414: the unpositioned lookup, on the pool the positioned one left
AfterComment(pool, issue) ==
  LET k == comment_index(pool, issue)
  IN IF k # 0 THEN Splice(pool, k) ELSE pool
existing_comment(pool, issue) ==
  LET k == comment_index(pool, issue)
  IN IF k # 0 THEN pool[k] ELSE NoDisc

(* --------------------------- external calls ---------------------------- *)
NoCall == [op |-> "none", id |-> 0, body |-> << >>, path |-> "", line |-> 0,
           base |-> "", head |-> ""]
\* gitlabUpdateNote(..., discussion id, note id, body)
gitlabUpdateNote(id, body) ==
  [op |-> "update", id |-> id, body |-> body, path |-> "", line |-> 0,
   base |-> "", head |-> ""]
\* gitlabCreateDiscussion(..., line, path, body, base sha, head sha)
gitlabCreateDiscussion(line, path, body, base, head) ==
  [op |-> "create", id |-> 0, body |-> body, path |-> path, line |-> line,
   base |-> base, head |-> head]
\* gitlabCreateDiscussionWithoutPosition(..., line, path, body)
gitlabCreateDiscussionWithoutPosition(line, path, body) ==
  [op |-> "createWithoutPosition", id |-> 0, body |-> body, path |-> path,
   line |-> line, base |-> "", head |-> ""]

\* what a call that succeeds does to the merge request's discussions
ApplyCall(srv, call) ==
  CASE call.op = "update" ->
         [k \in 1..Len(srv) |->
            IF srv[k].id = call.id THEN [srv[k] EXCEPT !.body = call.body] ELSE srv[k]]
    [] call.op = "create" ->
         Append(srv, Disc(Len(srv) + 1, call.body, Pos(call.path, call.line)))
    [] call.op = "createWithoutPosition" ->
         Append(srv, Disc(Len(srv) + 1, call.body, NoPos))
    [] OTHER -> srv

\* an update made without looking at the body the note has
PositionedUpdate_Always(ed, reviewCommentBody) ==
  gitlabUpdateNote(ed.id, reviewCommentBody)
\* lines 418-426: the positioned match is updated when its body differs from
\* the review message
PositionedUpdate(ed, reviewCommentBody) ==
  IF ed.body # reviewCommentBody
  THEN gitlabUpdateNote(ed.id, reviewCommentBody)
  ELSE NoCall
\* an update that writes the message it compared with
CommentUpdate_IssueBody(ec, reviewCommentBody, issueCommentBody) ==
  IF ec.body # issueCommentBody
  THEN gitlabUpdateNote(ec.id, issueCommentBody)
  ELSE NoCall
\* lines 429-436: the unpositioned match is compared with the issue message
\* and updated with the review message
CommentUpdate(ec, reviewCommentBody, issueCommentBody) ==
  IF ec.body # issueCommentBody
  THEN gitlabUpdateNote(ec.id, reviewCommentBody)
  ELSE NoCall

\* the branches with the diff looked at before the server state
Branch_DiffFirst(issue, ed, ec, ignored, new, inDiff) ==
  LET reviewCommentBody == coverityCreateReviewCommentMessage(issue)
      issueCommentBody == coverityCreateIssueCommentMessage(issue, file_link(issue))
  IN IF ed # NoDisc
     THEN IF ed.body # reviewCommentBody
          THEN gitlabUpdateNote(ed.id, reviewCommentBody)
          ELSE NoCall
     ELSE IF ec # NoDisc
     THEN IF ec.body # issueCommentBody
          THEN gitlabUpdateNote(ec.id, reviewCommentBody)
          ELSE NoCall
     ELSE IF inDiff
     THEN gitlabCreateDiscussion(issue.mainEventLineNumber,
                                 issue.strippedMainEventFilePathname,
                                 reviewCommentBody,
                                 CI_MERGE_REQUEST_DIFF_BASE_SHA, CI_COMMIT_SHA)
     ELSE IF ignored THEN NoCall
     ELSE IF ~new THEN NoCall
     ELSE gitlabCreateDiscussionWithoutPosition(issue.mainEventLineNumber,
                                 issue.strippedMainEventFilePathname,
                                 issueCommentBody)
\* the branches with the positioned create anchored with the SHAs swapped
Branch_SwappedShas(issue, ed, ec, ignored, new, inDiff) ==
  LET reviewCommentBody == coverityCreateReviewCommentMessage(issue)
      issueCommentBody == coverityCreateIssueCommentMessage(issue, file_link(issue))
  IN IF ed # NoDisc
     THEN IF ed.body # reviewCommentBody
          THEN gitlabUpdateNote(ed.id, reviewCommentBody)
          ELSE NoCall
     ELSE IF ec # NoDisc
     THEN IF ec.body # issueCommentBody
          THEN gitlabUpdateNote(ec.id, reviewCommentBody)
          ELSE NoCall
     ELSE IF ignored THEN NoCall
     ELSE IF ~new THEN NoCall
     ELSE IF inDiff
     THEN gitlabCreateDiscussion(issue.mainEventLineNumber,
                                 issue.strippedMainEventFilePathname,
                                 reviewCommentBody,
                                 CI_COMMIT_SHA, CI_MERGE_REQUEST_DIFF_BASE_SHA)
     ELSE gitlabCreateDiscussionWithoutPosition(issue.mainEventLineNumber,
                                 issue.strippedMainEventFilePathname,
                                 issueCommentBody)
\* lines 416-456: the branch taken for one issue, as the call it makes
Branch(issue, ed, ec, ignored, new, inDiff) ==
  LET reviewCommentBody == coverityCreateReviewCommentMessage(issue)
      issueCommentBody == coverityCreateIssueCommentMessage(issue, file_link(issue))
  IN IF ed # NoDisc
     THEN PositionedUpdate(ed, reviewCommentBody)
     ELSE IF ec # NoDisc
     THEN CommentUpdate(ec, reviewCommentBody, issueCommentBody)
     ELSE IF ignored THEN NoCall
     ELSE IF ~new THEN NoCall
     ELSE IF inDiff
     THEN gitlabCreateDiscussion(issue.mainEventLineNumber,
                                 issue.strippedMainEventFilePathname,
                                 reviewCommentBody,
                                 CI_MERGE_REQUEST_DIFF_BASE_SHA, CI_COMMIT_SHA)
     ELSE gitlabCreateDiscussionWithoutPosition(issue.mainEventLineNumber,
                                 issue.strippedMainEventFilePathname,
                                 issueCommentBody)

\* the ids of the discussions of a pool, in its order
Ids(pool) == [k \in 1..Len(pool) |-> pool[k].id]
\* lines 384-456: one pass of the issue loop over the pool as it stands
LoopBody(issue, pool, map, diff) ==
  LET projectIssue == map[issue.mergeKey]
      ignored == IF projectIssue.known THEN ignoredOnServer(projectIssue)
                 ELSE DefaultIgnoredOnServer
      new == IF projectIssue.known THEN newOnServer(projectIssue)
             ELSE DefaultNewOnServer
      ed == existing_discussion(pool, issue)
      p1 == AfterPositioned(pool, issue)
      ec == existing_comment(p1, issue)
      p2 == AfterComment(p1, issue)
      inDiff == coverityIsInDiff(issue, diff)
  IN [pool |-> p2,
      call |-> Branch(issue, ed, ec, ignored, new, inDiff),
      dec |-> [issue |-> issue, call |-> NoCall, projectIssue |-> projectIssue,
               ignoredOnServer |-> ignored, newOnServer |-> new,
               inDiff |-> inDiff,
               existing_discussion |-> ed.id, existing_comment |-> ec.id,
               pool |-> Ids(pool), rest |-> Ids(p2)]]

\* a sweep that rewrites every remaining discussion
SweepCall_Always(d) ==
  gitlabUpdateNote(d.id, coverityCreateNoLongerPresentMessage(d.body))
\* lines 459-468: what the sweep does with one remaining discussion
SweepCall(d) ==
  IF coverityIsPresent(d.body)
  THEN gitlabUpdateNote(d.id, coverityCreateNoLongerPresentMessage(d.body))
  ELSE NoCall

\* a pool of every discussion listed
MarkerFilter_All(discussions) == discussions
\* line 378: the discussions whose root note carries the preface
MarkerFilter(discussions) ==
  SelectSeq(discussions, LAMBDA d : Includes(d.body, COVERITY_COMMENT_PREFACE))

(* ------------------------------- state --------------------------------- *)
VARIABLES
  server,             \* the merge request's discussions, in listing order
  coverityIssues,     \* coverityIssues.issues, the findings of this run
  is_merge_request,   \* line 325
  canCheckCoverity,   \* line 357
  mergeKeyToIssue,    \* line 355, filled by the bulk lookup
  review_discussions, \* line 377, the pool
  listed,             \* the pool as line 378 built it, before any splice
  diff_map,           \* line 379
  pc,                 \* where main() stands
  i,                  \* the issue the loop is at
  j,                  \* the discussion the sweep is at
  calls,              \* the external calls of this run, in order
  swept,              \* the ids of the discussions the sweep has visited
  decisions,          \* what the loop saw and chose, one entry per issue
  exitCode,           \* process.exit's argument; -1 while none
  run,                \* the number of this run
  replay,             \* this run repeats the previous run's inputs
  prevOk,             \* the previous run completed and none of its calls failed
  resolved,           \* ids a sweep of an earlier run has rewritten, their issue absent since
  covServer,          \* the Coverity server's record of each mergeKey
  mrDiff,             \* the merge request's changed lines, as <<path, line>>
  env,                \* the Coverity settings the arguments and the environment give
  detect_pc,              \* where the Black Duck main() stands
  SCAN_MODE,              \* line 49
  detect_is_merge_request, \* line 73
  rapidScanReport,        \* line 163, the text of this run's report
  detect_discussions,     \* line 172, review_discussions of the Black Duck main()
  detect_calls,           \* the GitLab calls of this Black Duck run, in order
  detect_run,             \* the number of this Black Duck run
  managedAtStart,         \* discussions with the Detect preface before the first run
  commented               \* a comment call of some Black Duck run has succeeded

\* the state of the Black Duck main()
detectVars == <<detect_pc, SCAN_MODE, detect_is_merge_request, rapidScanReport,
                detect_discussions, detect_calls, detect_run, managedAtStart,
                commented>>

vars == <<server, coverityIssues, is_merge_request, canCheckCoverity,
          mergeKeyToIssue, review_discussions, diff_map, pc, i, j, calls, swept,
          decisions, exitCode, run, replay, prevOk, listed, resolved, covServer, mrDiff, env, detectVars>>

\* the Black Duck main() not started
DetectIdle ==
  /\ detect_pc = "start"
  /\ SCAN_MODE = "RAPID"
  /\ detect_is_merge_request = FALSE
  /\ rapidScanReport = ""
  /\ detect_discussions = << >>
  /\ detect_calls = << >>
  /\ detect_run = 1
  /\ managedAtStart = 0
  /\ commented = FALSE

\* main() before its first external call
Boot ==
  /\ is_merge_request = FALSE
  /\ canCheckCoverity = FALSE
  /\ mergeKeyToIssue = EmptyMap
  /\ review_discussions = << >>
  /\ listed = << >>
  /\ diff_map = {}
  /\ pc = "start"
  /\ i = 1
  /\ j = 1
  /\ calls = << >>
  /\ swept = << >>
  /\ decisions = << >>
  /\ exitCode = -1
  /\ run = 1
  /\ replay = FALSE
  /\ prevOk = FALSE
  /\ resolved = {}

\* one run over any findings and any discussions, on a Coverity server that
\* knows none of the issues and a diff that holds some of them
Init ==
  /\ Boot
  /\ DetectIdle
  /\ server \in InitServers
  /\ coverityIssues \in IssueLists
  /\ covServer = EmptyMap
  /\ mrDiff = HalfDiff
  /\ env \in FewEnvironments

(* ------------------------------ the run -------------------------------- *)
SetupCall(op) == [NoCall EXCEPT !.op = op]
Logged(by, call, ok) == [by |-> by, call |-> call, ok |-> ok]
WriteOps == {"update", "create", "createWithoutPosition"}
IsWrite(c) == c.call.op \in WriteOps
Writes == SelectSeq(calls, IsWrite)

\* lines 368-371 and the awaits of lines 377-379: a setup call that fails ends
\* the run (process.exit(1), or the rejection of main's promise)
AfterSetupFailure_Continue(next) == next
AfterSetupFailure(next) == "aborted"
\* the .catch handlers of lines 422, 433, 446, 453 and 464: the error is
\* logged and main() goes on
AfterWrite_Abort(ok, next) == IF ok THEN next ELSE "aborted"
AfterWrite(ok, next) == next

\* line 381: the loop goes on while an issue is left, then the sweep starts
LoopAt(n) == IF n <= Len(coverityIssues) THEN "loop" ELSE "sweep"

\* lines 283-293: without a Coverity URL or a project name main() exits with 1
MissingUrlOrProject ==
  /\ pc = "start"
  /\ ~HasUrlAndProject(env)
  /\ pc' = "aborted"
  /\ exitCode' = 1
  /\ UNCHANGED <<server, coverityIssues, is_merge_request, canCheckCoverity,
                 mergeKeyToIssue, review_discussions, diff_map, i, j, calls, swept,
                 decisions, run, replay, prevOk, listed, resolved, covServer, mrDiff, env, detectVars>>

\* a run that goes on to the lookup without a merge request
AfterNotMergeRequest_FallThrough == "lookup"
\* lines 339-342: `return`
AfterNotMergeRequest == "done"

\* lines 325-342: a run that is not a merge request's returns at once
NotMergeRequest ==
  /\ pc = "start"
  /\ HasUrlAndProject(env)
  /\ ~replay
  /\ is_merge_request' = FALSE
  /\ pc' = AfterNotMergeRequest
  /\ UNCHANGED <<server, coverityIssues, canCheckCoverity, mergeKeyToIssue,
                 review_discussions, diff_map, i, j, calls, swept, decisions,
                 exitCode, run, replay, prevOk, listed, resolved, covServer, mrDiff, env, detectVars>>

\* lines 325-357: a merge request's run goes on to the Coverity lookup
MergeRequest ==
  /\ pc = "start"
  /\ HasUrlAndProject(env)
  /\ is_merge_request' = TRUE
  /\ canCheckCoverity' = CanCheck(env)
  /\ pc' = "lookup"
  /\ UNCHANGED <<server, coverityIssues, mergeKeyToIssue,
                 review_discussions, diff_map, i, j, calls, swept, decisions,
                 exitCode, run, replay, prevOk, listed, resolved, covServer, mrDiff, env, detectVars>>

\* lines 357-359: without the Coverity credentials no lookup is made
Degraded ==
  /\ pc = "lookup"
  /\ ~canCheckCoverity
  /\ pc' = "list"
  /\ UNCHANGED <<canCheckCoverity, server, coverityIssues, is_merge_request, mergeKeyToIssue,
                 review_discussions, diff_map, i, j, calls, swept, decisions,
                 exitCode, run, replay, prevOk, listed, resolved, covServer, mrDiff, env, detectVars>>

\* line 364: no lookup for an empty findings list
LookupNotNeeded ==
  /\ pc = "lookup"
  /\ canCheckCoverity
  /\ Len(coverityIssues) = 0
  /\ pc' = "list"
  /\ UNCHANGED <<canCheckCoverity, server, coverityIssues, is_merge_request, mergeKeyToIssue,
                 review_discussions, diff_map, i, j, calls, swept, decisions,
                 exitCode, run, replay, prevOk, listed, resolved, covServer, mrDiff, env, detectVars>>

\* lines 365-367
LookupOk ==
  /\ pc = "lookup"
  /\ canCheckCoverity
  /\ Len(coverityIssues) > 0
  /\ mergeKeyToIssue' = Matching(covServer, allUniqueMergeKeys(coverityIssues))
  /\ calls' = Append(calls, Logged(0, SetupCall("lookup"), TRUE))
  /\ pc' = "list"
  /\ UNCHANGED <<canCheckCoverity, server, coverityIssues, is_merge_request,
                 review_discussions, diff_map, i, j, swept, decisions,
                 exitCode, run, replay, prevOk, listed, resolved, covServer, mrDiff, env, detectVars>>

\* lines 368-371
LookupFail ==
  /\ pc = "lookup"
  /\ ~replay
  /\ canCheckCoverity
  /\ Len(coverityIssues) > 0
  /\ calls' = Append(calls, Logged(0, SetupCall("lookup"), FALSE))
  /\ pc' = AfterSetupFailure("list")
  /\ exitCode' = IF pc' = "aborted" THEN 1 ELSE exitCode
  /\ UNCHANGED <<canCheckCoverity, server, coverityIssues, is_merge_request, mergeKeyToIssue,
                 review_discussions, diff_map, i, j, swept, decisions,
                 run, replay, prevOk, listed, resolved, covServer, mrDiff, env, detectVars>>

\* lines 377-378
ListOk ==
  /\ pc = "list"
  /\ review_discussions' = MarkerFilter(server)
  /\ listed' = review_discussions'
  /\ calls' = Append(calls, Logged(0, SetupCall("list"), TRUE))
  /\ pc' = "diff"
  /\ UNCHANGED <<server, coverityIssues, is_merge_request, canCheckCoverity,
                 mergeKeyToIssue, diff_map, i, j, swept, decisions,
                 exitCode, run, replay, prevOk, resolved, covServer, mrDiff, env, detectVars>>

ListFail ==
  /\ pc = "list"
  /\ ~replay
  /\ calls' = Append(calls, Logged(0, SetupCall("list"), FALSE))
  /\ pc' = AfterSetupFailure("diff")
  /\ UNCHANGED <<server, coverityIssues, is_merge_request, canCheckCoverity,
                 mergeKeyToIssue, review_discussions, diff_map, i, j, swept,
                 decisions, exitCode, run, replay, prevOk, listed, resolved, covServer, mrDiff, env, detectVars>>

\* line 379
DiffOk ==
  /\ pc = "diff"
  /\ diff_map' = mrDiff
  /\ calls' = Append(calls, Logged(0, SetupCall("diffmap"), TRUE))
  /\ pc' = LoopAt(1)
  /\ UNCHANGED <<server, coverityIssues, is_merge_request, canCheckCoverity,
                 mergeKeyToIssue, review_discussions, i, j, swept, decisions,
                 exitCode, run, replay, prevOk, listed, resolved, covServer, mrDiff, env, detectVars>>

DiffFail ==
  /\ pc = "diff"
  /\ ~replay
  /\ calls' = Append(calls, Logged(0, SetupCall("diffmap"), FALSE))
  /\ pc' = AfterSetupFailure(LoopAt(1))
  /\ UNCHANGED <<server, coverityIssues, is_merge_request, canCheckCoverity,
                 mergeKeyToIssue, review_discussions, diff_map, i, j, swept,
                 decisions, exitCode, run, replay, prevOk, listed, resolved, covServer, mrDiff, env, detectVars>>

\* lines 381-457: the loop body for issue i, its one call included
ProcessIssue ==
  /\ pc = "loop"
  /\ i <= Len(coverityIssues)
  /\ LET r == LoopBody(coverityIssues[i], review_discussions, mergeKeyToIssue, diff_map)
     IN /\ review_discussions' = r.pool
        /\ decisions' = Append(decisions, [r.dec EXCEPT !.call = r.call])
        /\ IF r.call.op = "none"
           THEN /\ UNCHANGED <<server, calls>>
                /\ pc' = LoopAt(i + 1)
           ELSE \E ok \in BOOLEAN :
                  /\ calls' = Append(calls, Logged(i, r.call, ok))
                  /\ server' = IF ok THEN ApplyCall(server, r.call) ELSE server
                  /\ pc' = AfterWrite(ok, LoopAt(i + 1))
  /\ i' = i + 1
  /\ UNCHANGED <<coverityIssues, is_merge_request, canCheckCoverity,
                 mergeKeyToIssue, diff_map, j, swept, exitCode, run, replay, prevOk, listed, resolved, covServer, mrDiff, env, detectVars>>

\* lines 459-468: the sweep at discussion j of what the loop left
SweepStep ==
  /\ pc = "sweep"
  /\ j <= Len(review_discussions)
  /\ LET d == review_discussions[j]
         c == SweepCall(d)
     IN /\ swept' = Append(swept, d.id)
        /\ IF c.op = "none"
           THEN /\ UNCHANGED <<server, calls>>
                /\ pc' = "sweep"
           ELSE \E ok \in BOOLEAN :
                  /\ calls' = Append(calls, Logged(0, c, ok))
                  /\ server' = IF ok THEN ApplyCall(server, c) ELSE server
                  /\ pc' = AfterWrite(ok, "sweep")
  /\ j' = j + 1
  /\ UNCHANGED <<coverityIssues, is_merge_request, canCheckCoverity,
                 mergeKeyToIssue, review_discussions, diff_map, i, decisions,
                 exitCode, run, replay, prevOk, listed, resolved, covServer, mrDiff, env, detectVars>>

\* an exit signal that tells whether a call failed
ExitSignal_Failures(issues) ==
  IF \E k \in 1..Len(calls) : ~calls[k].ok THEN 1 ELSE 0
\* lines 472-476: the argument of process.exit
ExitSignal(issues) == IF Len(issues) > 0 THEN 1 ELSE 0

\* lines 470-476
Exit ==
  /\ pc = "sweep"
  /\ j > Len(review_discussions)
  /\ exitCode' = ExitSignal(coverityIssues)
  /\ pc' = "done"
  /\ UNCHANGED <<server, coverityIssues, is_merge_request, canCheckCoverity,
                 mergeKeyToIssue, review_discussions, diff_map, i, j, calls,
                 swept, decisions, run, replay, prevOk, listed, resolved, covServer, mrDiff, env, detectVars>>

Next ==
  \/ MissingUrlOrProject \/ NotMergeRequest \/ MergeRequest
  \/ Degraded \/ LookupNotNeeded \/ LookupOk \/ LookupFail
  \/ ListOk \/ ListFail \/ DiffOk \/ DiffFail
  \/ ProcessIssue \/ SweepStep \/ Exit

Spec == Init /\ [][Next]_vars

(* ------------------- one run, any server records ---------------------- *)
MaxIssuesBranch == 1
MaxDiscBranch == 1

\* one run over short findings, on a Coverity server with any record of
\* their mergeKeys
InitBranch ==
  /\ Boot
  /\ DetectIdle
  /\ server \in { Numbered(sh) : sh \in SeqsUpTo(DiscussionUniverse, MaxDiscBranch) }
  /\ coverityIssues \in SeqsUpTo(IssueUniverse, MaxIssuesBranch)
  /\ covServer \in Servers(allUniqueMergeKeys(coverityIssues))
  /\ mrDiff \in DiffMaps
  /\ env \in Environments

SpecBranch == InitBranch /\ [][Next]_vars

(* --------------------------- runs in a row ----------------------------- *)
MaxIssuesRuns == 1
MaxDiscRuns == 1
\* what a discussion may look like before the first of the runs
RunsDiscussionUniverse ==
  { <<coverityCreateReviewCommentMessage(Issue("K1", 10)), Pos(IssuePath, 10)>>,
    <<StaleReviewBody("K2"), NoPos>>,
    <<ForeignBody("K1"), Pos(IssuePath, 10)>> }

AllOk == \A k \in 1..Len(calls) : calls[k].ok
\* the ids the sweep of this run has rewritten
SweptOk == { calls[k].call.id : k \in { n \in 1..Len(calls) :
               IsWrite(calls[n]) /\ calls[n].by = 0 /\ calls[n].ok } }
\* no issue of the findings has a mergeKey the discussion's body holds
KeysAbsent(body, issues) ==
  \A k \in 1..Len(issues) : ~Includes(body, issues[k].mergeKey)
StillResolved(issues) ==
  { id \in resolved \cup SweptOk :
      \E k \in 1..Len(server) : server[k].id = id /\ KeysAbsent(server[k].body, issues) }

\* main() is started again, on the merge request as the last run left it
Restart ==
  /\ run < MaxRuns
  /\ run' = run + 1
  /\ pc' = "start"
  /\ is_merge_request' = FALSE
  /\ mergeKeyToIssue' = EmptyMap
  /\ review_discussions' = << >>
  /\ listed' = << >>
  /\ diff_map' = {}
  /\ i' = 1
  /\ j' = 1
  /\ calls' = << >>
  /\ swept' = << >>
  /\ decisions' = << >>
  /\ exitCode' = -1
  /\ prevOk' = (pc = "done" /\ is_merge_request /\ AllOk)
  /\ canCheckCoverity' = FALSE
  /\ UNCHANGED <<server, env, detectVars>>

\* the next run: same findings, same answers of the Coverity server and of
\* the diff map
RerunSame ==
  /\ pc = "done"
  /\ is_merge_request
  /\ Restart
  /\ replay' = TRUE
  /\ resolved' = StillResolved(coverityIssues)
  /\ UNCHANGED <<coverityIssues, covServer, mrDiff>>

\* the next run, on the findings of another scan
RerunNew ==
  /\ pc = "done"
  /\ is_merge_request
  /\ Restart
  /\ replay' = FALSE
  /\ UNCHANGED <<covServer, mrDiff>>
  /\ \E issues \in SeqsUpTo(IssueUniverse, MaxIssuesRuns) :
       /\ coverityIssues' = issues
       /\ resolved' = StillResolved(issues)

NextRuns == Next \/ RerunSame \/ RerunNew

InitRuns ==
  /\ Boot
  /\ DetectIdle
  /\ server \in { Numbered(sh) : sh \in SeqsUpTo(RunsDiscussionUniverse, MaxDiscRuns) }
  /\ coverityIssues \in SeqsUpTo(IssueUniverse, MaxIssuesRuns)
  /\ covServer = EmptyMap
  /\ mrDiff = HalfDiff
  /\ env \in FewEnvironments

SpecRuns == InitRuns /\ [][NextRuns]_vars

(* ------------- runs in a row on a fresh merge request ------------------ *)
MaxIssuesFresh == 2
MaxDiscFresh == 1
\* the findings of a scan whose mergeKeys are pairwise distinct
DistinctKeys(issues) ==
  \A a, b \in 1..Len(issues) : a # b => issues[a].mergeKey # issues[b].mergeKey
FreshIssueLists ==
  { l \in SeqsUpTo(IssueUniverse, MaxIssuesFresh) : DistinctKeys(l) }
\* a Coverity server that knows none of the keys, or has K1 as ignored, or
\* has K1 from an earlier snapshot
FreshServers ==
  { EmptyMap,
    [EmptyMap EXCEPT !["K1"] = Rec("Ignore", "Unclassified", 1, 1)],
    [EmptyMap EXCEPT !["K1"] = Rec("Undecided", "Unclassified", 1, 3)] }
FreshDiffMaps == {HalfDiff, {}}

\* the next run, on the findings of another scan, with the server records
\* and the diff as they are by then
RerunFresh ==
  /\ pc = "done"
  /\ is_merge_request
  /\ Restart
  /\ replay' = FALSE
  /\ resolved' = {}
  /\ coverityIssues' \in FreshIssueLists
  /\ covServer' \in FreshServers
  /\ mrDiff' \in FreshDiffMaps

NextFresh == Next \/ RerunFresh

\* a merge request on which the integration has not commented yet
InitFresh ==
  /\ Boot
  /\ DetectIdle
  /\ server \in { Numbered(sh) :
                    sh \in SeqsUpTo({<<ForeignBody("K1"), Pos(IssuePath, 10)>>}, MaxDiscFresh) }
  /\ coverityIssues \in FreshIssueLists
  /\ covServer \in FreshServers
  /\ mrDiff \in FreshDiffMaps
  /\ env \in FewEnvironments

SpecFresh == InitFresh /\ [][NextFresh]_vars

(* ------------------- the Black Duck rapid-scan report ------------------ *)
MaxDiscDetect == 2
MaxRunsDetect == 3

\* line 24
COMMENT_PREFACE == "<!-- Comment automatically managed by Detect Integration, do not remove this line -->"
\* line 168: the preface, a line break, the report
DetectMessage(report) == <<COMMENT_PREFACE, report>>
\* the reports of a scan
Reports == {"no violations", "one violation"}
\* --scan-mode as given on the command line (line 49)
ScanModes == {"RAPID", "INTELLIGENT", "FULL"}
\* what a discussion may look like before the first Black Duck run
DetectDiscussionUniverse ==
  { <<DetectMessage("an older report"), NoPos>>,
    <<StaleReviewBody("K1"), NoPos>>,
    <<<<"A reviewer's note">>, Pos(IssuePath, 10)>> }
\* line 173: the discussions whose root note carries the Detect preface
DetectFilter(discussions) ==
  SelectSeq(discussions, LAMBDA d : Includes(d.body, COMMENT_PREFACE))

\* gitlabCreateDiscussionWithoutPosition(..., message) of line 181
detectCreateDiscussionWithoutPosition(message) ==
  [NoCall EXCEPT !.op = "createWithoutPosition", !.body = message]
\* a comment step that never looks for its earlier comment
CommentCall_AlwaysCreate(pool, message) ==
  detectCreateDiscussionWithoutPosition(message)
\* lines 175-183: update the first managed discussion, or create one
CommentCall(pool, message) ==
  IF Len(pool) > 0
  THEN gitlabUpdateNote(pool[1].id, message)
  ELSE detectCreateDiscussionWithoutPosition(message)

\* the state of the Coverity main()
coverityVars == <<coverityIssues, is_merge_request, canCheckCoverity,
                  mergeKeyToIssue, review_discussions, diff_map, pc, i, j, calls,
                  swept, decisions, exitCode, run, replay, prevOk, listed, resolved,
                  covServer, mrDiff, env>>

\* lines 53-56: a scan mode that is neither RAPID nor INTELLIGENT
DetectBadMode ==
  /\ detect_pc = "start"
  /\ SCAN_MODE \notin {"RAPID", "INTELLIGENT"}
  /\ detect_pc' = "aborted"
  /\ UNCHANGED <<server, coverityVars, SCAN_MODE, detect_is_merge_request,
                 rapidScanReport, detect_discussions, detect_calls, detect_run,
                 managedAtStart, commented>>

\* lines 90-143: the policy check and the run of Detect end the program
\* (no enabled policy, no Detect, a failed scan)
DetectScanFails ==
  /\ detect_pc = "start"
  /\ SCAN_MODE \in {"RAPID", "INTELLIGENT"}
  /\ detect_pc' = "aborted"
  /\ UNCHANGED <<server, coverityVars, SCAN_MODE, detect_is_merge_request,
                 rapidScanReport, detect_discussions, detect_calls, detect_run,
                 managedAtStart, commented>>

\* lines 90-164: the scan went through and, in RAPID mode, its report is made
DetectScanOk ==
  /\ detect_pc = "start"
  /\ SCAN_MODE \in {"RAPID", "INTELLIGENT"}
  /\ detect_pc' = "report"
  /\ UNCHANGED <<server, coverityVars, SCAN_MODE, detect_is_merge_request,
                 rapidScanReport, detect_discussions, detect_calls, detect_run,
                 managedAtStart, commented>>

\* lines 198-200: no report outside RAPID mode
DetectSkipReport ==
  /\ detect_pc = "report"
  /\ SCAN_MODE # "RAPID"
  /\ detect_pc' = "done"
  /\ UNCHANGED <<server, coverityVars, SCAN_MODE, detect_is_merge_request,
                 rapidScanReport, detect_discussions, detect_calls, detect_run,
                 managedAtStart, commented>>

\* line 166: outside a merge request the report is not posted
DetectNoComment ==
  /\ detect_pc = "report"
  /\ SCAN_MODE = "RAPID"
  /\ ~detect_is_merge_request
  /\ detect_pc' = "done"
  /\ UNCHANGED <<server, coverityVars, SCAN_MODE, detect_is_merge_request,
                 rapidScanReport, detect_discussions, detect_calls, detect_run,
                 managedAtStart, commented>>

\* lines 172-173
DetectListOk ==
  /\ detect_pc = "report"
  /\ SCAN_MODE = "RAPID"
  /\ detect_is_merge_request
  /\ detect_discussions' = DetectFilter(server)
  /\ detect_calls' = Append(detect_calls, Logged(0, SetupCall("list"), TRUE))
  /\ detect_pc' = "comment"
  /\ UNCHANGED <<server, coverityVars, SCAN_MODE, detect_is_merge_request,
                 rapidScanReport, detect_run, managedAtStart, commented>>

\* line 172: the await has no catch, main()'s promise is rejected
DetectListFail ==
  /\ detect_pc = "report"
  /\ SCAN_MODE = "RAPID"
  /\ detect_is_merge_request
  /\ detect_calls' = Append(detect_calls, Logged(0, SetupCall("list"), FALSE))
  /\ detect_pc' = "aborted"
  /\ UNCHANGED <<server, coverityVars, SCAN_MODE, detect_is_merge_request,
                 rapidScanReport, detect_discussions, detect_run, managedAtStart,
                 commented>>

\* lines 175-185: the one comment call; when it fails main()'s promise is
\* rejected
DetectComment ==
  /\ detect_pc = "comment"
  /\ LET c == CommentCall(detect_discussions, DetectMessage(rapidScanReport))
     IN \E ok \in BOOLEAN :
          /\ detect_calls' = Append(detect_calls, Logged(0, c, ok))
          /\ server' = IF ok THEN ApplyCall(server, c) ELSE server
          /\ commented' = (commented \/ ok)
          /\ detect_pc' = IF ok THEN "done" ELSE "aborted"
  /\ UNCHANGED <<coverityVars, SCAN_MODE, detect_is_merge_request,
                 rapidScanReport, detect_discussions, detect_run, managedAtStart>>

\* the Black Duck main() is started again on the same merge request
DetectRerun ==
  /\ detect_pc \in {"done", "aborted"}
  /\ detect_run < MaxRunsDetect
  /\ detect_run' = detect_run + 1
  /\ detect_pc' = "start"
  /\ SCAN_MODE' \in ScanModes
  /\ detect_is_merge_request' \in BOOLEAN
  /\ rapidScanReport' \in Reports
  /\ detect_discussions' = << >>
  /\ detect_calls' = << >>
  /\ UNCHANGED <<server, coverityVars, managedAtStart, commented>>

NextDetect ==
  \/ DetectBadMode \/ DetectScanFails \/ DetectScanOk
  \/ DetectSkipReport \/ DetectNoComment
  \/ DetectListOk \/ DetectListFail \/ DetectComment
  \/ DetectRerun

\* the discussions of the merge request that carry the Detect preface
Managed == { k \in 1..Len(server) : Includes(server[k].body, COMMENT_PREFACE) }

InitDetect ==
  /\ Boot
  /\ coverityIssues = << >>
  /\ covServer = EmptyMap
  /\ mrDiff = {}
  /\ env = Settings
  /\ server \in { Numbered(sh) : sh \in SeqsUpTo(DetectDiscussionUniverse, MaxDiscDetect) }
  /\ detect_pc = "start"
  /\ SCAN_MODE \in ScanModes
  /\ detect_is_merge_request \in BOOLEAN
  /\ rapidScanReport \in Reports
  /\ detect_discussions = << >>
  /\ detect_calls = << >>
  /\ detect_run = 1
  /\ managedAtStart = Cardinality(Managed)
  /\ commented = FALSE

SpecDetect == InitDetect /\ [][NextDetect]_vars

(* ------------------------------ properties ----------------------------- *)
\* the discussions issue n of this run took out of the pool
Extracted(n) ==
  {decisions[n].existing_discussion, decisions[n].existing_comment} \ {0}
\* issue n found no discussion, positioned or not
Unmatched(n) ==
  decisions[n].existing_discussion = 0 /\ decisions[n].existing_comment = 0
\* the write calls issue n made
WritesBy(n) == SelectSeq(calls, LAMBDA c : IsWrite(c) /\ c.by = n)
Creates(n) == SelectSeq(WritesBy(n), LAMBDA c : c.call.op # "update")
\* the call of issue n is logged exactly when there is one
OneCall(n) ==
  IF decisions[n].call.op = "none" THEN WritesBy(n) = << >>
  ELSE Len(WritesBy(n)) = 1 /\ WritesBy(n)[1].call = decisions[n].call

\* C1: at-most-one-match: no discussion id is taken out of the pool for two
\* different issues of one run; a discussion an issue extracted (positioned or
\* unpositioned lookup) is matched by no later issue.
C1_AtMostOneMatch ==
  \A a, b \in 1..Len(decisions) : a # b => Extracted(a) \cap Extracted(b) = {}
\* two issues with the same mergeKey each extracted a discussion
C1_Witness ==
  \E a, b \in 1..Len(decisions) :
    /\ a < b
    /\ decisions[a].issue.mergeKey = decisions[b].issue.mergeKey
    /\ Extracted(a) # {}
    /\ Extracted(b) # {}

\* C3: positioned before unpositioned: an issue with a positioned match
\* extracts only that discussion; another discussion whose body holds the
\* same mergeKey stays in the pool, so each issue consumes at most one
\* discussion.
C3_PositionedOnly ==
  \A n \in 1..Len(decisions) :
    decisions[n].existing_discussion # 0 =>
      /\ decisions[n].existing_comment = 0
      /\ Len(decisions[n].rest) = Len(decisions[n].pool) - 1

\* C4: ignored suppression: an issue whose server record has action Ignore or
\* classification False Positive or Intentional, and which no discussion of
\* the pool matches, makes no create call and no update call.
C4_IgnoredSuppression ==
  \A n \in 1..Len(decisions) :
    LET r == decisions[n].projectIssue
    IN (/\ r.known
        /\ (r.action = "Ignore"
            \/ r.classification \in {"False Positive", "Intentional"})
        /\ Unmatched(n))
       => decisions[n].call = NoCall /\ WritesBy(n) = << >>

\* C8: branch order for an unmatched issue: skip when ignoredOnServer, else
\* skip when not newOnServer (inside the diff or not), else exactly one
\* positioned create when the diff map holds the issue's file and line, else
\* exactly one unpositioned create; a record with firstSnapshotId different
\* from lastSnapshotId and no discussion gives no create call.
C8_BranchOrder ==
  \A n \in 1..Len(decisions) :
    LET d == decisions[n]
    IN Unmatched(n) =>
         /\ OneCall(n)
         /\ IF d.ignoredOnServer THEN d.call = NoCall
            ELSE IF ~d.newOnServer THEN d.call = NoCall
            ELSE IF d.inDiff THEN d.call.op = "create"
            ELSE d.call.op = "createWithoutPosition"
         /\ (d.projectIssue.known
             /\ d.projectIssue.firstSnapshotId # d.projectIssue.lastSnapshotId)
            => Creates(n) = << >>
\* an unmatched issue inside the diff, not ignored and not new, was skipped
C8_Witness ==
  \E n \in 1..Len(decisions) :
    /\ Unmatched(n)
    /\ decisions[n].projectIssue.known
    /\ ~decisions[n].ignoredOnServer
    /\ ~decisions[n].newOnServer
    /\ decisions[n].inDiff
    /\ decisions[n].call = NoCall

\* C9: an issue the server has no record of and no discussion matches makes
\* exactly one call: inside the diff a positioned create anchored at the
\* issue's own file and line with the base and head SHAs, outside the diff an
\* unpositioned create.
C9_UnknownIssueCreates ==
  \A n \in 1..Len(decisions) :
    LET d == decisions[n]
    IN (Unmatched(n) /\ ~d.projectIssue.known) =>
         /\ Len(WritesBy(n)) = 1
         /\ WritesBy(n)[1].call = d.call
         /\ IF d.inDiff
            THEN d.call = gitlabCreateDiscussion(
                            d.issue.mainEventLineNumber,
                            d.issue.strippedMainEventFilePathname,
                            coverityCreateReviewCommentMessage(d.issue),
                            CI_MERGE_REQUEST_DIFF_BASE_SHA, CI_COMMIT_SHA)
            ELSE d.call.op = "createWithoutPosition"
\* the lookup answered without the mergeKey of an unmatched issue inside the
\* diff, and the positioned create was made
C9_Witness ==
  \E n \in 1..Len(decisions) :
    /\ canCheckCoverity
    /\ Unmatched(n) /\ ~decisions[n].projectIssue.known /\ decisions[n].inDiff
    /\ Len(WritesBy(n)) = 1 /\ WritesBy(n)[1].call.op = "create"

\* C10: an issue whose mergeKey the classification mapping lacks is taken as
\* not ignored and new: ignoredOnServer is false and newOnServer is true when
\* the branches are evaluated.
C10_AbsentIsNew ==
  \A n \in 1..Len(decisions) :
    ~decisions[n].projectIssue.known =>
      ~decisions[n].ignoredOnServer /\ decisions[n].newOnServer
\* C10 as stated: such an issue is taken as not ignored and not new.
C10_AbsentNotNew ==
  \A n \in 1..Len(decisions) :
    ~decisions[n].projectIssue.known =>
      ~decisions[n].ignoredOnServer /\ ~decisions[n].newOnServer
\* the lookup was made and answered, it left the issue's mergeKey out, and
\* the issue, outside the diff, went through the branches to the last one
C10_Witness ==
  \E n \in 1..Len(decisions) :
    /\ \E k \in 1..Len(calls) : calls[k].call.op = "lookup" /\ calls[k].ok
    /\ ~decisions[n].projectIssue.known
    /\ Unmatched(n)
    /\ decisions[n].call.op = "createWithoutPosition"

\* the write calls of the run in which every call succeeds, from issue n on
\* over the pool given, then the sweep of what is left: <<by, call>> pairs
RECURSIVE RefSweep(_, _)
RefSweep(pool, m) ==
  IF m > Len(pool) THEN << >>
  ELSE (IF SweepCall(pool[m]).op = "none" THEN << >>
        ELSE << [by |-> 0, call |-> SweepCall(pool[m])] >>)
       \o RefSweep(pool, m + 1)
RECURSIVE RefWrites(_, _)
RefWrites(n, pool) ==
  IF n > Len(coverityIssues) THEN RefSweep(pool, 1)
  ELSE LET r == LoopBody(coverityIssues[n], pool, mergeKeyToIssue, diff_map)
       IN (IF r.call.op = "none" THEN << >>
           ELSE << [by |-> n, call |-> r.call] >>)
          \o RefWrites(n + 1, r.pool)
\* the pool that run leaves to its sweep
RECURSIVE RefRest(_, _)
RefRest(n, pool) ==
  IF n > Len(coverityIssues) THEN pool
  ELSE RefRest(n + 1, LoopBody(coverityIssues[n], pool, mergeKeyToIssue, diff_map).pool)
\* the write calls this run has attempted, failed or not
Attempted == [k \in 1..Len(Writes) |-> [by |-> Writes[k].by, call |-> Writes[k].call]]
IsPrefix(a, b) == Len(a) <= Len(b) /\ SubSeq(b, 1, Len(a)) = a
WriteFailed == \E k \in 1..Len(calls) : IsWrite(calls[k]) /\ ~calls[k].ok
PastSetup == is_merge_request /\ pc \in {"loop", "sweep", "done"}

\* C6: failure isolation: whichever create/update calls fail, the run goes
\* through every issue and then the sweep, and attempts the calls of the run
\* in which every call succeeds, in the same order; a failed write never ends
\* the loop or the sweep.
C6_FailureIsolation ==
  /\ PastSetup =>
       LET ref == RefWrites(1, listed)
       IN /\ IsPrefix(Attempted, ref)
          /\ pc = "done" =>
               /\ Attempted = ref
               /\ Len(decisions) = Len(coverityIssues)
               /\ swept = Ids(review_discussions)
               /\ review_discussions = RefRest(1, listed)
  /\ WriteFailed => pc # "aborted"
\* the call of the first issue failed, the second issue and the sweep still
\* made theirs, and the run ended
C6_Witness ==
  /\ pc = "done"
  /\ \E a, b, c \in 1..Len(calls) :
       /\ IsWrite(calls[a]) /\ calls[a].by = 1 /\ ~calls[a].ok
       /\ IsWrite(calls[b]) /\ calls[b].by = 2
       /\ IsWrite(calls[c]) /\ calls[c].by = 0

SetupOps == {"lookup", "list", "diffmap"}
SetupFailed == \E k \in 1..Len(calls) : calls[k].call.op \in SetupOps /\ ~calls[k].ok
\* C7: fatal setup failures: when the classification lookup, the discussion
\* listing or the diff-map fetch fails, the run is over: no issue is
\* processed, nothing is swept, no create or update call is made.
C7_FatalSetup ==
  SetupFailed =>
    /\ pc = "aborted"
    /\ Writes = << >>
    /\ decisions = << >>
    /\ swept = << >>
\* the diff-map fetch failed with findings to process and a discussion the
\* sweep would have rewritten
C7_Witness ==
  /\ pc = "aborted"
  /\ Len(calls) > 0
  /\ calls[Len(calls)].call.op = "diffmap"
  /\ Len(coverityIssues) > 0
  /\ \E k \in 1..Len(review_discussions) : coverityIsPresent(review_discussions[k].body)

\* C2: idempotence: when a run has completed with every create/update call
\* succeeding and the next run has the same findings, classification and diff
\* map, that next run makes no update call and no create call.
C2_Idempotence ==
  (run >= 2 /\ replay /\ prevOk) => Writes = << >>

\* the update calls of this run on discussion id
UpdatesOf(id) ==
  SelectSeq(calls, LAMBDA c : c.call.op = "update" /\ c.call.id = id)
\* C5: resolution sweep, exactly once: a discussion of the pool that passes
\* the presence check and holds the mergeKey of an issue absent from the
\* findings gets exactly one update call in the run, from the sweep, carrying
\* the no-longer-present form of its body; once that update has succeeded it
\* gets no update call in later runs, as long as the issue stays absent.
C5_ResolutionSweep ==
  /\ (pc = "done" /\ is_merge_request) =>
       \A k \in 1..Len(listed) :
         LET d == listed[k]
         IN (/\ coverityIsPresent(d.body)
             /\ \E key \in Keys : Includes(d.body, key)
             /\ KeysAbsent(d.body, coverityIssues))
            => /\ Len(UpdatesOf(d.id)) = 1
               /\ UpdatesOf(d.id)[1].by = 0
               /\ UpdatesOf(d.id)[1].call.body =
                    coverityCreateNoLongerPresentMessage(d.body)
  /\ \A id \in resolved : UpdatesOf(id) = << >>
\* a later run listed a discussion an earlier sweep had rewritten, went
\* through its own sweep and ended
C5_Witness ==
  /\ run >= 2
  /\ pc = "done"
  /\ \E k \in 1..Len(listed) :
       /\ listed[k].id \in resolved
       /\ listed[k].id \in { swept[m] : m \in 1..Len(swept) }

\* the classification lookup was called in this run
LookupMade == \E k \in 1..Len(calls) : calls[k].call.op = "lookup"
\* main() ended before its first call
EndedBeforeCalls == pc = "aborted" /\ calls = << >>
\* every issue processed so far was taken as unknown to the server, and made
\* exactly one create call when no discussion matched it
AllTakenAsUnknown ==
  \A n \in 1..Len(decisions) :
    /\ ~decisions[n].projectIssue.known
    /\ ~decisions[n].ignoredOnServer
    /\ decisions[n].newOnServer
    /\ Unmatched(n) =>
         /\ Len(WritesBy(n)) = 1
         /\ WritesBy(n)[1].call.op \in {"create", "createWithoutPosition"}
\* C11: degraded mode: when the Coverity user or the passphrase is missing, no
\* classification lookup call is made and the run is not ended for it; every
\* issue is taken as unknown to the server, so no issue is skipped as ignored
\* or as not new, and every issue without a matching discussion makes exactly
\* one create call.  Without the URL or the project name the run exits with 1
\* before any call.
C11_DegradedMode ==
  /\ (HasUrlAndProject(env) /\ env # Settings) =>
       /\ ~LookupMade
       /\ ~EndedBeforeCalls
       /\ AllTakenAsUnknown
  /\ ~HasUrlAndProject(env) =>
       /\ pc \in {"start", "aborted"}
       /\ calls = << >>
       /\ pc = "aborted" => exitCode = 1
\* C11 as stated: whichever of the URL, the user, the passphrase and the
\* project name is missing, no lookup is made and the run is not ended.
C11_AnyMissing ==
  env # Settings =>
    /\ ~LookupMade
    /\ ~EndedBeforeCalls
    /\ AllTakenAsUnknown
\* a run without the passphrase ended after a create for an issue that the
\* server has on record as ignored and that no discussion matched
C11_Witness ==
  /\ pc = "done"
  /\ "COVERITY_PASSPHRASE" \notin env
  /\ \E n \in 1..Len(decisions) :
       /\ covServer[decisions[n].issue.mergeKey].known
       /\ covServer[decisions[n].issue.mergeKey].action = "Ignore"
       /\ Unmatched(n)
       /\ Len(WritesBy(n)) = 1

\* C12: exit signal: a merge request's run that got past the setup calls is
\* never cut short, and ends with a nonzero exit signal exactly when the
\* findings hold an issue and with zero exactly when they hold none, whatever
\* create/update calls failed and whatever branch each issue took.
C12_ExitSignal ==
  PastSetup =>
    /\ pc # "aborted"
    /\ pc # "done" => exitCode = -1
    /\ pc = "done" =>
         /\ (exitCode # 0) <=> (Len(coverityIssues) > 0)
         /\ (exitCode = 0) <=> (Len(coverityIssues) = 0)
\* a run with findings ended with signal 1, one issue skipping its update and
\* another making a create call that failed
C12_Witness ==
  /\ pc = "done"
  /\ is_merge_request
  /\ exitCode = 1
  /\ WriteFailed
  /\ \E a, b \in 1..Len(decisions) :
       /\ decisions[a].call = NoCall /\ ~Unmatched(a)
       /\ decisions[b].call.op \in {"create", "createWithoutPosition"}

\* the discussions of the merge request whose root note carries the preface
\* and holds the mergeKey
Bearing(key) ==
  { k \in 1..Len(server) :
      /\ Includes(server[k].body, COVERITY_COMMENT_PREFACE)
      /\ Includes(server[k].body, key) }
\* C13: no duplicate comments across runs: from a merge request with no
\* discussion of the integration's, after any runs (findings with pairwise
\* distinct mergeKeys, any server records, diff and line drift, any failed
\* calls), at most one discussion with the preface holds a given mergeKey.
C13_NoDuplicates ==
  \A key \in Keys : Cardinality(Bearing(key)) <= 1
\* in a later run an issue whose line had drifted found the discussion an
\* earlier run created for it, and both keys have their discussion
C13_Witness ==
  /\ run >= 2
  /\ \A key \in Keys : Cardinality(Bearing(key)) = 1
  /\ \E n \in 1..Len(decisions) :
       /\ decisions[n].existing_discussion = 0
       /\ decisions[n].existing_comment # 0
       /\ \E k \in 1..Len(server) :
            /\ server[k].id = decisions[n].existing_comment
            /\ server[k].position.has
            /\ server[k].position.new_line # decisions[n].issue.mainEventLineNumber

HasMarker(d) == Includes(d.body, COVERITY_COMMENT_PREFACE)
ListedIds == { listed[k].id : k \in 1..Len(listed) }
SweptIds == { swept[k] : k \in 1..Len(swept) }
\* the ids the update calls of this run were made on
UpdatedIds == { calls[k].call.id : k \in { m \in 1..Len(calls) : calls[m].call.op = "update" } }
ExtractedIds == UNION { Extracted(n) : n \in 1..Len(decisions) }
\* C14: ownership filter: the pool is exactly the listed discussions whose
\* root note holds the preface, in listing order; a discussion without the
\* preface matches no issue, whatever mergeKey and line it has, and gets no
\* update call from the issue loop or from the sweep.
C14_OwnershipFilter ==
  /\ (is_merge_request /\ pc = "diff") =>
       /\ \A k \in 1..Len(listed) : \E m \in 1..Len(server) : server[m] = listed[k]
       /\ \A m \in 1..Len(server) :
            HasMarker(server[m]) <=> \E k \in 1..Len(listed) : listed[k] = server[m]
       /\ \A a, b \in 1..Len(listed) : a < b => listed[a].id < listed[b].id
  /\ \A k \in 1..Len(listed) : HasMarker(listed[k])
  /\ ExtractedIds \cup UpdatedIds \cup SweptIds \subseteq ListedIds
  /\ \A m \in 1..Len(server) :
       ~HasMarker(server[m]) => server[m].id \notin ExtractedIds \cup UpdatedIds \cup SweptIds
\* a discussion without the preface held the mergeKey of an issue and was
\* anchored on its line; the issue found no match and made a create call
C14_Witness ==
  /\ pc = "done"
  /\ \E m \in 1..Len(server), n \in 1..Len(decisions) :
       /\ ~HasMarker(server[m])
       /\ Includes(server[m].body, decisions[n].issue.mergeKey)
       /\ server[m].position.has
       /\ server[m].position.new_line = decisions[n].issue.mainEventLineNumber
       /\ Unmatched(n)
       /\ decisions[n].call.op = "create"

\* C15: sweep frame condition: a discussion left in the pool after the issue
\* loop whose body fails the presence check gets no update call in the run;
\* the sweep makes update calls only, and only on remaining discussions whose
\* body passes the presence check.
C15_SweepFrame ==
  /\ \A k \in 1..Len(calls) :
       (IsWrite(calls[k]) /\ calls[k].by = 0) =>
         /\ calls[k].call.op = "update"
         /\ Len(decisions) = Len(coverityIssues)
         /\ \E m \in 1..Len(review_discussions) :
              /\ review_discussions[m].id = calls[k].call.id
              /\ coverityIsPresent(review_discussions[m].body)
  /\ (is_merge_request /\ pc \in {"sweep", "done"}) =>
       \A m \in 1..Len(review_discussions) :
         ~coverityIsPresent(review_discussions[m].body)
           => UpdatesOf(review_discussions[m].id) = << >>
\* the sweep went over a discussion that fails the presence check without a
\* call and rewrote another one
C15_Witness ==
  /\ pc = "done"
  /\ \E a, b \in 1..Len(review_discussions) :
       /\ ~coverityIsPresent(review_discussions[a].body)
       /\ review_discussions[a].id \in SweptIds
       /\ UpdatesOf(review_discussions[a].id) = << >>
       /\ coverityIsPresent(review_discussions[b].body)
       /\ Len(UpdatesOf(review_discussions[b].id)) = 1

\* C16: ordering of the run: the issues are processed one at a time in the
\* order of the findings, the calls of an earlier issue before those of a
\* later one; every sweep call comes after the last issue; a discussion is
\* extracted by exactly one issue or visited by the sweep, never both, so a
\* discussion an issue matched gets no update from the sweep in that run.
C16_Ordering ==
  LET extracted == ExtractedIds
      sweptIds == SweptIds
  IN
  /\ Len(decisions) <= Len(coverityIssues)
  /\ \A n \in 1..Len(decisions) : decisions[n].issue = coverityIssues[n]
  /\ \A a, b \in 1..Len(calls) :
       (a < b /\ IsWrite(calls[a]) /\ IsWrite(calls[b])) =>
         /\ calls[a].by = 0 => calls[b].by = 0
         /\ calls[b].by # 0 => calls[a].by < calls[b].by
  /\ \A k \in 1..Len(calls) :
       (IsWrite(calls[k]) /\ calls[k].by # 0) => calls[k].by <= Len(decisions)
  /\ swept # << >> => Len(decisions) = Len(coverityIssues)
  /\ sweptIds \cap extracted = {}
  /\ \A a, b \in 1..Len(decisions) : a # b => Extracted(a) \cap Extracted(b) = {}
  /\ (is_merge_request /\ pc = "done") => ListedIds = sweptIds \cup extracted
  /\ \A k \in 1..Len(calls) :
       (calls[k].call.op = "update" /\ calls[k].call.id \in extracted) => calls[k].by # 0
\* the first issue made its call for the discussion it had extracted, the
\* second issue made its own, and the sweep then rewrote a discussion that no
\* issue had matched
C16_Witness ==
  /\ pc = "done"
  /\ Len(WritesBy(1)) = 1
  /\ Len(WritesBy(2)) = 1
  /\ Extracted(1) # {}
  /\ \E k \in 1..Len(calls) : calls[k].call.op = "update" /\ calls[k].by = 0

\* the discussion of the pool with the id given, as the listing returned it
ById(id) == CHOOSE d \in { listed[k] : k \in 1..Len(listed) } : d.id = id

\* C17: matched-positioned update rule: for an issue with a positioned match
\* an update call on that discussion is made if and only if the body it has
\* differs from the review message just rendered, the body written is that
\* review message, and no create call is made for the issue, whatever the
\* server's record and the diff map.
C17_PositionedUpdate ==
  \A n \in 1..Len(decisions) :
    LET d == decisions[n]
        review == coverityCreateReviewCommentMessage(d.issue)
    IN d.existing_discussion # 0 =>
         /\ OneCall(n)
         /\ Creates(n) = << >>
         /\ (d.call.op = "update") <=> (ById(d.existing_discussion).body # review)
         /\ d.call.op \in {"update", "none"}
         /\ d.call.op = "update" =>
              /\ d.call.id = d.existing_discussion
              /\ d.call.body = review
\* an issue outside the diff that the server has on record as ignored had a
\* positioned match with another body, which was updated
C17_Witness ==
  \E n \in 1..Len(decisions) :
    /\ decisions[n].existing_discussion # 0
    /\ decisions[n].ignoredOnServer
    /\ ~decisions[n].inDiff
    /\ Len(WritesBy(n)) = 1
    /\ WritesBy(n)[1].call.op = "update"

\* C18: matched-unpositioned update rule: for an issue with no positioned
\* match and a discussion found by mergeKey alone, the only call is an update
\* of that discussion; the body it writes is the review message, never the
\* issue message, and no create call is made even when the issue is ignored
\* or not new on the server.
C18_UnpositionedUpdate ==
  \A n \in 1..Len(decisions) :
    LET d == decisions[n]
        review == coverityCreateReviewCommentMessage(d.issue)
        issueBody == coverityCreateIssueCommentMessage(d.issue, file_link(d.issue))
    IN (d.existing_discussion = 0 /\ d.existing_comment # 0) =>
         /\ OneCall(n)
         /\ Creates(n) = << >>
         /\ d.call.op \in {"update", "none"}
         /\ d.call.op = "update" =>
              /\ d.call.id = d.existing_comment
              /\ d.call.body = review
              /\ d.call.body # issueBody
\* an issue not new on the server found, by mergeKey alone, an unpositioned
\* discussion written for another line, and updated it
C18_Witness ==
  \E n \in 1..Len(decisions) :
    /\ decisions[n].existing_discussion = 0
    /\ decisions[n].existing_comment # 0
    /\ ~ById(decisions[n].existing_comment).position.has
    /\ ~decisions[n].newOnServer
    /\ Len(WritesBy(n)) = 1
    /\ WritesBy(n)[1].call.op = "update"

\* C19: no retry: in a run each issue makes at most one write call (an update
\* or a create, never both), each discussion gets at most one update call,
\* and a call that failed is not made again.
C19_NoRetry ==
  \A a, b \in 1..Len(calls) :
    (a < b /\ IsWrite(calls[a]) /\ IsWrite(calls[b])) =>
      /\ calls[a].by # 0 => calls[b].by # calls[a].by
      /\ calls[a].call.op = "update" =>
           ~(calls[b].call.op = "update" /\ calls[b].call.id = calls[a].call.id)
      /\ ~calls[a].ok =>
           ~(calls[b].by = calls[a].by /\ calls[b].call = calls[a].call)
\* the update of the first issue failed, the run went on to another call and
\* ended with the discussion as it was
C19_Witness ==
  /\ pc = "done"
  /\ Len(calls) > 0
  /\ \E a \in 1..Len(calls) :
       /\ calls[a].call.op = "update" /\ calls[a].by = 1 /\ ~calls[a].ok
       /\ \E b \in 1..Len(calls) : b > a /\ IsWrite(calls[b])
       /\ \E m \in 1..Len(server) :
            server[m].id = calls[a].call.id /\ server[m].body # calls[a].call.body

\* the first discussion of the pool (given as ids) that passes the test, 0
\* when none does
FirstOf(ids, Test(_)) ==
  IF \E k \in 1..Len(ids) : Test(ById(ids[k]))
  THEN ids[CHOOSE k \in 1..Len(ids) :
             /\ Test(ById(ids[k]))
             /\ \A m \in 1..(k - 1) : ~Test(ById(ids[m]))]
  ELSE 0
\* the ids without the one given
Without(ids, id) == SelectSeq(ids, LAMBDA x : x # id)
\* C20: lookup results: the positioned lookup returns the lowest-index
\* discussion of the pool whose root note has a position with the issue's
\* line as new line and whose body holds the issue's mergeKey, whatever file
\* the position names; the unpositioned lookup returns the lowest-index
\* discussion of what is left whose body holds the mergeKey, whatever its
\* position.
C20_LookupResults ==
  \A n \in 1..Len(decisions) :
    LET d == decisions[n]
        OnLine(x) == /\ x.position.has
                     /\ x.position.new_line = d.issue.mainEventLineNumber
                     /\ Includes(x.body, d.issue.mergeKey)
        HoldsKey(x) == Includes(x.body, d.issue.mergeKey)
    IN /\ d.existing_discussion = FirstOf(d.pool, OnLine)
       /\ d.existing_comment =
            FirstOf(Without(d.pool, d.existing_discussion), HoldsKey)
\* the positioned lookup returned a discussion anchored on another file
C20_Witness ==
  \E n \in 1..Len(decisions) :
    /\ decisions[n].existing_discussion # 0
    /\ ById(decisions[n].existing_discussion).position.new_path
         # decisions[n].issue.strippedMainEventFilePathname

\* C21: a run that is not a merge request's returns before any classification
\* lookup, discussion listing, diff-map fetch, create or update call: it makes
\* no external call, processes no issue and sweeps nothing.
C21_NotMergeRequestNoCalls ==
  ~is_merge_request =>
    /\ calls = << >>
    /\ decisions = << >>
    /\ swept = << >>
    /\ pc \in {"start", "done", "aborted"}
\* a run outside a merge request returned with every setting given, findings
\* to report and a discussion that a sweep would have rewritten
C21_Witness ==
  /\ pc = "done"
  /\ ~is_merge_request
  /\ env = Settings
  /\ Len(coverityIssues) > 0
  /\ \E k \in 1..Len(server) :
       HasMarker(server[k]) /\ coverityIsPresent(server[k].body)

\* the comment calls of this Black Duck run
DetectWrites == SelectSeq(detect_calls, IsWrite)
\* the lowest listing position of a discussion with the Detect preface
FirstManaged == CHOOSE k \in Managed : \A m \in Managed : k <= m
\* C22: the Black Duck rapid-scan report keeps a single managed comment: a
\* merge request's run that reaches the comment step makes exactly one write,
\* an update of the root note of the first listed discussion holding the
\* Detect preface when there is one, else one unpositioned create; from a
\* merge request with no managed discussion, at most one discussion carries
\* the preface after any runs, and exactly one once a comment call has
\* succeeded; a run outside a merge request makes no comment call.
C22_SingleManagedComment ==
  /\ Len(DetectWrites) <= 1
  /\ (detect_pc = "done" /\ SCAN_MODE = "RAPID" /\ detect_is_merge_request)
       => Len(DetectWrites) = 1
  /\ \A k \in 1..Len(detect_calls) :
       LET c == detect_calls[k]
       IN IsWrite(c) =>
            /\ c.call.body = DetectMessage(rapidScanReport)
            /\ c.call.op \in {"update", "createWithoutPosition"}
            /\ c.call.op = "update" =>
                 Managed # {} /\ c.call.id = server[FirstManaged].id
            /\ (c.call.op = "createWithoutPosition" /\ ~c.ok) => Managed = {}
            /\ (c.call.op = "createWithoutPosition" /\ c.ok) => Managed = {Len(server)}
  /\ (~detect_is_merge_request \/ SCAN_MODE # "RAPID") => detect_calls = << >>
  /\ managedAtStart = 0 =>
       /\ Cardinality(Managed) <= 1
       /\ commented => Cardinality(Managed) = 1
\* on a merge request that had no managed discussion, only discussions of
\* others, a later run updated the comment an earlier run had created
C22_Witness ==
  /\ managedAtStart = 0
  /\ detect_run >= 2
  /\ detect_pc = "done"
  /\ Len(server) >= 2
  /\ Cardinality(Managed) = 1
  /\ Len(DetectWrites) = 1
  /\ DetectWrites[1].call.op = "update"
  /\ DetectWrites[1].ok
  /\ server[FirstManaged].body = DetectMessage(rapidScanReport)
====
